---- MODULE Spec2Model ----
(***************************************************************************)
(* Model of packages/cli/scripts/util/Watcher.js: the Lambda side of the   *)
(* live rebuild orchestrator (entry point registry, rebuild scheduler,     *)
(* on-demand request coordinator, lint / type-check coordinator and the    *)
(* busy-status reporter).  Every handler of the class is one action; the   *)
(* handlers are written as operators over a "world" record so that the     *)
(* reconciliation pass, which the handlers call and which calls itself     *)
(* through onLintAndTypeCheckStarted, is part of the action that runs it.  *)
(***************************************************************************)
EXTENDS Integers, Sequences, FiniteSets, TLC

(***************************************************************************)
(* Bounds of the model                                                     *)
(***************************************************************************)
MaxEvents == 3

(***************************************************************************)
(* Program constants                                                       *)
(***************************************************************************)
BUILDER_CONCURRENCY == 1
OFF == 0
LOW == 1
HIGH == 2
REBUILD_PRIORITY == {OFF, LOW, HIGH}

NODE == "nodejs12.x"
GO == "go1.x"
PYTHON == "python3.8"

isGoRuntime(runtime) == runtime = GO
isNodeRuntime(runtime) == runtime = NODE
isPythonRuntime(runtime) == runtime = PYTHON

(***************************************************************************)
(* Configuration: the host-supplied handler list and the files on disk     *)
(***************************************************************************)
Handlers ==
  << [srcPath |-> "api", handler |-> "a.main", runtime |-> NODE],
     [srcPath |-> "svc", handler |-> "g1.go", runtime |-> GO],
     [srcPath |-> "svc", handler |-> "g2.go", runtime |-> GO],
     [srcPath |-> "svc", handler |-> "p.main", runtime |-> PYTHON] >>

\* a host with two node entry points in one source path
NodeHandlers ==
  << [srcPath |-> "web", handler |-> "c.main", runtime |-> NODE],
     [srcPath |-> "web", handler |-> "d.main", runtime |-> NODE] >>

\* the handler lists a host can configure: one of the above, or none at all
Configs == { Handlers, NodeHandlers, << >> }

isLintEnabled == TRUE
isTypeCheckEnabled == TRUE

File(dir, name, ext) == [dir |-> dir, name |-> name, ext |-> ext]
\* getHandlerFilePath: the file named by the first part of the handler (no .ts exists)
getHandlerFilePath(srcPath, handler) ==
  File(srcPath,
       CASE handler = "a.main" -> "a" [] handler = "c.main" -> "c" [] OTHER -> "d",
       "js")
EntryFile == getHandlerFilePath("api", "a.main")
\* the module of a source path that its entry files may import
importedFile(srcPath) ==
  IF srcPath = "api" THEN File("api", "b", "ts") ELSE File(srcPath, "e", "js")
NodeFiles == { EntryFile, importedFile("api") }
WebFiles == { File("web", "c", "js"), File("web", "d", "js"), importedFile("web") }
GoFiles == { File("svc", "m", "go") }
cdkInputFiles == { File("lib", "stack", "js") }
GoGlob == File("**", "*", "go")
Files == NodeFiles \cup WebFiles \cup GoFiles \cup cdkInputFiles

\* the input sets the bundler metafile of an entry point can enumerate: its entry
\* file and what that imports (d.js always imports the module, the others may)
metafileInputs(srcPath, handler) ==
  IF handler = "d.main"
  THEN { {getHandlerFilePath(srcPath, handler), importedFile(srcPath)} }
  ELSE { {getHandlerFilePath(srcPath, handler)},
         {getHandlerFilePath(srcPath, handler), importedFile(srcPath)} }

\* the input sets of the node entry point of Handlers
InputSets == metafileInputs("api", "a.main")

\* the input sets of all node entry points
AllInputSets ==
  InputSets \cup UNION { metafileInputs(NodeHandlers[i].srcPath, NodeHandlers[i].handler) :
                           i \in 1..Len(NodeHandlers) }

\* the metafile the bundler wrote, as fs.readJson finds it
Metafile(inputs) == [readable |-> TRUE, inputs |-> inputs]
UnreadableMetafile == [readable |-> FALSE, inputs |-> {}]

\* getInputFilesFromEsbuildMetafile: a failed read is logged and leaves metaJson
\* undefined, and `metaJson.inputs` then throws a TypeError
getInputFilesFromEsbuildMetafile(file) ==
  IF file.readable
  THEN [threw |-> FALSE, inputFiles |-> file.inputs]
  ELSE [threw |-> TRUE, inputFiles |-> {}]

\* a tsconfig.json exists in this source path
tsconfigExists(srcPath) == srcPath = "api"

endsWith(file, ext) == file.ext = ext

buildEntryPointKey(srcPath, handler) == <<srcPath, handler>>

HandlerKey(h) == buildEntryPointKey(h.srcPath, h.handler)

\* a child process handle, as far as the handlers tell handles apart: null or a
\* ChildProcess of some kind working for some source path
NoProcess == [kind |-> "null", srcPath |-> ""]
ChildProcess(kind, srcPath) == [kind |-> kind, srcPath |-> srcPath]
NoReturn == [key |-> << >>, runtime |-> "", handler |-> << >>]

VARIABLES
  lambdaHandlers, \* this.lambdaHandlers: the configured handler list
  phase,          \* position of start(): constructed, starting, watching, test, failed
  startError,     \* the error start() threw, "" if none
  settled,        \* initial builds settled so far: key -> "fulfilled" / "rejected"
  state,          \* this.state
  watcher,        \* the paths the chokidar watcher watches
  children,       \* how many child processes of each class have not closed yet
  running,        \* how many dispatched rebuilds of each entry point have not completed
  requests,       \* the getTranspiledHandler calls that suspended, and their outcome
  returned,       \* what the latest getTranspiledHandler call that did not suspend returned
  srcPathOrder,   \* Object.keys(srcPathsData): insertion order
  logFirst,       \* the first busy message logged, "" if none yet
  logTail,        \* the busy messages logged so far, cut to the last two
  suspended,      \* onReBuildSucceeded calls suspended on `await watcher.unwatch`
  events          \* number of watcher events and host requests so far

vars == << lambdaHandlers, phase, startError, settled, state, watcher, children,
           running, requests, returned, srcPathOrder, logFirst, logTail, suspended, events >>

Keys == { HandlerKey(lambdaHandlers[i]) : i \in 1..Len(lambdaHandlers) }
SrcPaths == { lambdaHandlers[i].srcPath : i \in 1..Len(lambdaHandlers) }
\* Object.keys(entryPointsData): insertion order of initializeState
KeyOrder == [i \in 1..Len(lambdaHandlers) |-> HandlerKey(lambdaHandlers[i])]

\* the child processes that have not closed yet are counted per class
ProcessClasses ==
  [kind : {"lint", "typeCheck"}, srcPath : SrcPaths, killed : BOOLEAN]

\* everything the handlers read and write, threaded through the operators
World ==
  [ state |-> state, watcher |-> watcher, children |-> children,
    running |-> running, requests |-> requests, returned |-> returned, srcPathOrder |-> srcPathOrder,
    logFirst |-> logFirst, logTail |-> logTail ]

Commit(w) ==
  /\ state' = w.state
  /\ watcher' = w.watcher
  /\ children' = w.children
  /\ running' = w.running
  /\ requests' = w.requests
  /\ returned' = w.returned
  /\ srcPathOrder' = w.srcPathOrder
  /\ logFirst' = w.logFirst
  /\ logTail' = w.logTail

MSG_REBUILDING == "Rebuilding code..."
MSG_DONE == "Done building code"
MSG_FAILED == "Rebuilding code failed"

\* logger.info of a busy message
loggerInfo(w, msg) ==
  [w EXCEPT !.logFirst = IF @ = "" THEN msg ELSE @,
            !.logTail = IF Len(@) < 2 THEN Append(@, msg) ELSE << @[2], msg >>]

entryPointDataTemplateObject ==
  [ srcPath |-> "", handler |-> "", runtime |-> "", hasError |-> FALSE,
    buildPromise |-> FALSE, outEntryPoint |-> << >>, needsReBuild |-> OFF,
    pendingRequestCallbacks |-> << >>, inputFiles |-> {} ]

srcPathDataTemplateObject ==
  [ srcPath |-> "", tsconfig |-> FALSE, inputFiles |-> {},
    lintProcess |-> NoProcess, needsReCheck |-> FALSE,
    typeCheckProcess |-> NoProcess ]

EPs(w) == w.state.entryPointsData
SPs(w) == w.state.srcPathsData

setEP(w, key, ep) ==
  [w EXCEPT !.state.entryPointsData =
     [k \in DOMAIN @ \cup {key} |-> IF k = key THEN ep ELSE @[k]]]

setSP(w, srcPath, sp) ==
  [w EXCEPT !.state.srcPathsData =
              [p \in DOMAIN @ \cup {srcPath} |-> IF p = srcPath THEN sp ELSE @[p]],
            !.srcPathOrder =
              IF srcPath \in DOMAIN w.state.srcPathsData THEN @ ELSE Append(@, srcPath)]

(***************************************************************************)
(* Helpers of the language and of lib/array                                *)
(***************************************************************************)
Min(a, b) == IF a < b THEN a ELSE b
Max(a, b) == IF a > b THEN a ELSE b

\* slice that ignores its end: the whole array
sliceIgnoresEnd(s, end) == s

\* Array.prototype.slice(0, end): a negative end counts from the end
slice(s, end) ==
  SubSeq(s, 1, IF end < 0 THEN Max(Len(s) + end, 0) ELSE Min(end, Len(s)))

\* Array.prototype.indexOf followed by splice(index, 1): drops the first occurrence
RECURSIVE spliceFirst(_, _)
spliceFirst(s, x) ==
  IF s = << >> THEN << >>
  ELSE IF Head(s) = x THEN Tail(s)
  ELSE << Head(s) >> \o spliceFirst(Tail(s), x)

\* array.diff(old, new): what new adds to old and what it drops
arrayDiff(old, new) == [add |-> new \ old, remove |-> old \ new]

\* array.unique of the flattened input files of some entry points
arrayUnique(sets) == UNION sets

(***************************************************************************)
(* Child processes and pending promises                                    *)
(***************************************************************************)
\* cross-spawn: a new child process, closed later by the operating system
spawn(w, kind, srcPath) ==
  [ w |-> [w EXCEPT !.children[[kind |-> kind, srcPath |-> srcPath, killed |-> FALSE]] = @ + 1],
    cp |-> ChildProcess(kind, srcPath) ]

\* cp && cp.kill(): the signal is sent, the close event comes later
kill(w, cp) ==
  IF cp = NoProcess THEN w
  ELSE [w EXCEPT
          !.children[[kind |-> cp.kind, srcPath |-> cp.srcPath, killed |-> FALSE]] = @ - 1,
          !.children[[kind |-> cp.kind, srcPath |-> cp.srcPath, killed |-> TRUE]] = @ + 1]

\* the operating system closes a child process of class c
closed(w, c) == [w EXCEPT !.children[c] = @ - 1]

NoResult == [runtime |-> "", handler |-> << >>]

\* what getTranspiledHandler returns once it runs to its return statement
handlerResult(ep) == [runtime |-> ep.runtime, handler |-> ep.outEntryPoint]

\* resolve() of a pending promise; settling a settled promise does nothing
resolve(w, key, rid) ==
  IF w.requests[rid].status = "waiting"
  THEN [w EXCEPT !.requests[rid].status = "resolved",
                 !.requests[rid].result = handlerResult(EPs(w)[key])]
  ELSE w

reject(w, key, rid) ==
  IF w.requests[rid].status = "waiting"
  THEN [w EXCEPT !.requests[rid].status = "rejected"]
  ELSE w

RECURSIVE resolveAll(_, _, _)
resolveAll(w, key, callbacks) ==
  IF callbacks = << >> THEN w
  ELSE resolveAll(resolve(w, key, Head(callbacks)), key, Tail(callbacks))

RECURSIVE rejectAll(_, _, _)
rejectAll(w, key, callbacks) ==
  IF callbacks = << >> THEN w
  ELSE rejectAll(reject(w, key, Head(callbacks)), key, Tail(callbacks))

(***************************************************************************)
(* Public functions                                                        *)
(***************************************************************************)
\* getTranspiledHandler without the test of line 208: every call waits
getTranspiledHandlerAlwaysWaits(w, key) ==
  [setEP(w, key,
     [EPs(w)[key] EXCEPT
        !.needsReBuild = HIGH,
        !.pendingRequestCallbacks = Append(@, Len(w.requests) + 1)])
   EXCEPT !.requests =
     Append(@, [key |-> key, status |-> "waiting", result |-> NoResult])]

getTranspiledHandler(w, key) ==
  LET entryPointData == EPs(w)[key]
      rid == Len(w.requests) + 1
  IN IF entryPointData.buildPromise \/ entryPointData.needsReBuild # OFF
     THEN [setEP(w, key,
             [entryPointData EXCEPT
                !.needsReBuild = HIGH,
                !.pendingRequestCallbacks = Append(@, rid)])
           EXCEPT !.requests =
             Append(@, [key |-> key, status |-> "waiting", result |-> NoResult])]
     ELSE [w EXCEPT !.returned =
             [key |-> key, runtime |-> entryPointData.runtime,
              handler |-> entryPointData.outEntryPoint]]

initializeState(w) ==
  [w EXCEPT !.state.entryPointsData =
     [key \in Keys |->
        LET h == CHOOSE x \in { lambdaHandlers[i] : i \in 1..Len(lambdaHandlers) } :
                   HandlerKey(x) = key
        IN [entryPointDataTemplateObject EXCEPT
              !.srcPath = h.srcPath, !.handler = h.handler,
              !.runtime = h.runtime, !.pendingRequestCallbacks = << >>]]]

hasGoRuntime == \E i \in 1..Len(lambdaHandlers) : isGoRuntime(lambdaHandlers[i].runtime)
hasNodeRuntime == \E i \in 1..Len(lambdaHandlers) : isNodeRuntime(lambdaHandlers[i].runtime)

getWatchedFiles(w) ==
  cdkInputFiles
    \cup (IF hasNodeRuntime THEN DOMAIN w.state.watchedNodeFilesIndex ELSE {})
    \cup (IF hasGoRuntime THEN {GoGlob} ELSE {})

getAllSrcPaths(w) == w.srcPathOrder

(***************************************************************************)
(* The busy status and the reconciliation pass                             *)
(***************************************************************************)
\* the busy status without the test of isProcessingLambdaChanges on the
\* NOT BUSY => BUSY side: "Rebuilding code..." whenever something needs a rebuild
updateLambdaCodeBusyStatusRelogs(w) ==
  LET eps == EPs(w)
      sps == SPs(w)
      needsReBuild == \E k \in DOMAIN eps : eps[k].needsReBuild # OFF
      isBuilding == \E k \in DOMAIN eps :
                      eps[k].needsReBuild # OFF \/ eps[k].buildPromise
      hasError == \E k \in DOMAIN eps : eps[k].hasError
      isChecking == \E p \in DOMAIN sps :
                      \/ sps[p].needsReCheck
                      \/ sps[p].lintProcess # NoProcess
                      \/ sps[p].typeCheckProcess # NoProcess
  IN IF needsReBuild
     THEN loggerInfo([w EXCEPT !.state.isProcessingLambdaChanges = TRUE],
                     MSG_REBUILDING)
     ELSE IF ~w.state.isProcessingLambdaChanges \/ isBuilding THEN w
          ELSE IF hasError
               THEN loggerInfo([w EXCEPT !.state.isProcessingLambdaChanges = FALSE],
                               MSG_FAILED)
               ELSE IF isChecking THEN w
                    ELSE loggerInfo([w EXCEPT !.state.isProcessingLambdaChanges = FALSE],
                                    MSG_DONE)

\* the busy status whose BUSY => NOT BUSY side looks at needsReBuild only, not at
\* buildPromise: done is reported while builds are in flight
updateLambdaCodeBusyStatusEarlyDone(w) ==
  LET eps == EPs(w)
      sps == SPs(w)
      needsReBuild == \E k \in DOMAIN eps : eps[k].needsReBuild # OFF
      hasError == \E k \in DOMAIN eps : eps[k].hasError
      isChecking == \E p \in DOMAIN sps :
                      \/ sps[p].needsReCheck
                      \/ sps[p].lintProcess # NoProcess
                      \/ sps[p].typeCheckProcess # NoProcess
  IN IF ~w.state.isProcessingLambdaChanges
     THEN IF ~needsReBuild THEN w
          ELSE loggerInfo([w EXCEPT !.state.isProcessingLambdaChanges = TRUE],
                          MSG_REBUILDING)
     ELSE IF needsReBuild THEN w
          ELSE IF hasError
               THEN loggerInfo([w EXCEPT !.state.isProcessingLambdaChanges = FALSE],
                               MSG_FAILED)
               ELSE IF isChecking THEN w
                    ELSE loggerInfo([w EXCEPT !.state.isProcessingLambdaChanges = FALSE],
                                    MSG_DONE)

updateLambdaCodeBusyStatus(w) ==
  LET eps == EPs(w)
      sps == SPs(w)
      needsReBuild == \E k \in DOMAIN eps : eps[k].needsReBuild # OFF
      isBuilding == \E k \in DOMAIN eps :
                      eps[k].needsReBuild # OFF \/ eps[k].buildPromise
      hasError == \E k \in DOMAIN eps : eps[k].hasError
      isChecking == \E p \in DOMAIN sps :
                      \/ sps[p].needsReCheck
                      \/ sps[p].lintProcess # NoProcess
                      \/ sps[p].typeCheckProcess # NoProcess
  IN IF ~w.state.isProcessingLambdaChanges
     THEN IF ~needsReBuild THEN w
          ELSE loggerInfo([w EXCEPT !.state.isProcessingLambdaChanges = TRUE],
                          MSG_REBUILDING)
     ELSE IF isBuilding THEN w
          ELSE IF hasError
               THEN loggerInfo([w EXCEPT !.state.isProcessingLambdaChanges = FALSE],
                               MSG_FAILED)
               ELSE IF isChecking THEN w
                    ELSE loggerInfo([w EXCEPT !.state.isProcessingLambdaChanges = FALSE],
                                    MSG_DONE)

\* the count of running go builds that sees none of them
goEPsBuildingNone(eps, n) == << >>

\* the keys of the go entry points that are building, in registry order
RECURSIVE goEPsBuilding(_, _)
goEPsBuilding(eps, n) ==
  IF n = 0 THEN << >>
  ELSE LET key == KeyOrder[n]
           rest == goEPsBuilding(eps, n - 1)
       IN IF isGoRuntime(eps[key].runtime) /\ eps[key].buildPromise
          THEN Append(rest, key) ELSE rest

\* the go queue with HIGH pushed at the end like LOW: plain registry order
RECURSIVE goEPsNeedsRebuildFifo(_, _)
goEPsNeedsRebuildFifo(eps, n) ==
  IF n = 0 THEN << >>
  ELSE LET key == KeyOrder[n]
           rest == goEPsNeedsRebuildFifo(eps, n - 1)
       IN IF ~isGoRuntime(eps[key].runtime) \/ eps[key].buildPromise THEN rest
          ELSE IF eps[key].needsReBuild # OFF THEN Append(rest, key)
          ELSE rest

\* the go queue that takes the HIGH entry points only and leaves the LOW ones out
RECURSIVE goEPsNeedsRebuildHighOnly(_, _)
goEPsNeedsRebuildHighOnly(eps, n) ==
  IF n = 0 THEN << >>
  ELSE LET key == KeyOrder[n]
           rest == goEPsNeedsRebuildHighOnly(eps, n - 1)
       IN IF ~isGoRuntime(eps[key].runtime) \/ eps[key].buildPromise THEN rest
          ELSE IF eps[key].needsReBuild = HIGH THEN << key >> \o rest
          ELSE rest

\* the go entry points to rebuild: LOW pushed at the end, HIGH unshifted at the front
RECURSIVE goEPsNeedsRebuild(_, _)
goEPsNeedsRebuild(eps, n) ==
  IF n = 0 THEN << >>
  ELSE LET key == KeyOrder[n]
           rest == goEPsNeedsRebuild(eps, n - 1)
       IN IF ~isGoRuntime(eps[key].runtime) \/ eps[key].buildPromise THEN rest
          ELSE IF eps[key].needsReBuild = LOW THEN Append(rest, key)
          ELSE IF eps[key].needsReBuild = HIGH THEN << key >> \o rest
          ELSE rest

\* the node entry points to rebuild, chosen without the test of buildPromise
RECURSIVE nodeEPsNeedsRebuildWhileBuilding(_, _)
nodeEPsNeedsRebuildWhileBuilding(eps, n) ==
  IF n = 0 THEN << >>
  ELSE LET key == KeyOrder[n]
           rest == nodeEPsNeedsRebuildWhileBuilding(eps, n - 1)
       IN IF /\ isNodeRuntime(eps[key].runtime)
             /\ eps[key].needsReBuild # OFF
          THEN Append(rest, key) ELSE rest

RECURSIVE nodeEPsNeedsRebuild(_, _)
nodeEPsNeedsRebuild(eps, n) ==
  IF n = 0 THEN << >>
  ELSE LET key == KeyOrder[n]
           rest == nodeEPsNeedsRebuild(eps, n - 1)
       IN IF /\ isNodeRuntime(eps[key].runtime)
             /\ ~eps[key].buildPromise
             /\ eps[key].needsReBuild # OFF
          THEN Append(rest, key) ELSE rest

onReBuildStarted(w, key) ==
  setEP(w, key, [EPs(w)[key] EXCEPT !.needsReBuild = OFF, !.buildPromise = TRUE])

\* this.reTranspile(srcPath, handler) / this.reCompile(srcPath, handler): the
\* bundler rebuild or the go build is running from here on
reBuild(w, key) == [w EXCEPT !.running[key] = @ + 1]

\* the bundler rebuild or the go build of key has ended
built(w, key) == [w EXCEPT !.running[key] = @ - 1]

RECURSIVE startBuilds(_, _)
startBuilds(w, keys) ==
  IF keys = << >> THEN w
  ELSE startBuilds(onReBuildStarted(reBuild(w, Head(keys)), Head(keys)), Tail(keys))

\* the files the linter is run on
lintInputFiles(inputFiles) ==
  { f \in inputFiles : f.dir # "node_modules" /\ (endsWith(f, "ts") \/ endsWith(f, "js")) }

runLint(w, srcPath) ==
  IF ~isLintEnabled THEN [w |-> w, cp |-> NoProcess]
  ELSE IF lintInputFiles(SPs(w)[srcPath].inputFiles) = {}
       THEN [w |-> w, cp |-> NoProcess]
       ELSE spawn(w, "lint", srcPath)

runTypeCheck(w, srcPath) ==
  IF ~isTypeCheckEnabled THEN [w |-> w, cp |-> NoProcess]
  ELSE IF { f \in SPs(w)[srcPath].inputFiles : endsWith(f, "ts") } = {}
       THEN [w |-> w, cp |-> NoProcess]
       ELSE IF ~SPs(w)[srcPath].tsconfig THEN [w |-> w, cp |-> NoProcess]
            ELSE spawn(w, "typeCheck", srcPath)

RECURSIVE updateLambdaCodeState(_)
RECURSIVE reCheckSrcPaths(_, _)
RECURSIVE onLintAndTypeCheckStarted(_, _, _, _)

onLintAndTypeCheckStarted(w, srcPath, lintProcess, typeCheckProcess) ==
  updateLambdaCodeState(
    setSP(w, srcPath, [SPs(w)[srcPath] EXCEPT
                         !.lintProcess = lintProcess,
                         !.typeCheckProcess = typeCheckProcess,
                         !.needsReCheck = FALSE]))

\* the restart of the checkers that leaves the recorded processes running
reCheckSrcPathsNoKill(w, srcPaths) ==
  IF srcPaths = << >> THEN w
  ELSE LET srcPath == Head(srcPaths)
           sp == SPs(w)[srcPath]
       IN IF sp.needsReCheck
          THEN LET lint == runLint(w, srcPath)
                   typeCheck == runTypeCheck(lint.w, srcPath)
               IN reCheckSrcPaths(
                    onLintAndTypeCheckStarted(typeCheck.w, srcPath, lint.cp, typeCheck.cp),
                    Tail(srcPaths))
          ELSE reCheckSrcPaths(w, Tail(srcPaths))

\* the forEach over Object.keys(srcPathsData) that restarts the checkers
reCheckSrcPaths(w, srcPaths) ==
  IF srcPaths = << >> THEN w
  ELSE LET srcPath == Head(srcPaths)
           sp == SPs(w)[srcPath]
       IN IF sp.needsReCheck
          THEN LET killed == kill(kill(w, sp.lintProcess), sp.typeCheckProcess)
                   lint == runLint(killed, srcPath)
                   typeCheck == runTypeCheck(lint.w, srcPath)
               IN reCheckSrcPaths(
                    onLintAndTypeCheckStarted(typeCheck.w, srcPath, lint.cp, typeCheck.cp),
                    Tail(srcPaths))
          ELSE reCheckSrcPaths(w, Tail(srcPaths))

\* the pass without the return on isTranspiling: checkers restart while builds run
updateLambdaCodeStateChecksWhileBuilding(w) ==
  LET busy == updateLambdaCodeBusyStatus(w)
      eps == EPs(busy)
      n == Len(KeyOrder)
      concurrencyRemaining == BUILDER_CONCURRENCY - Len(goEPsBuilding(eps, n))
      node == startBuilds(busy, nodeEPsNeedsRebuild(eps, n))
      go == startBuilds(node, slice(goEPsNeedsRebuild(eps, n), concurrencyRemaining))
      hasError == \E k \in DOMAIN EPs(go) : EPs(go)[k].hasError
  IN IF hasError THEN go
     ELSE reCheckSrcPaths(go, go.srcPathOrder)

\* the pass without the return on hasError: checkers restart after a failed build
updateLambdaCodeStateChecksOnError(w) ==
  LET busy == updateLambdaCodeBusyStatus(w)
      eps == EPs(busy)
      n == Len(KeyOrder)
      concurrencyRemaining == BUILDER_CONCURRENCY - Len(goEPsBuilding(eps, n))
      node == startBuilds(busy, nodeEPsNeedsRebuild(eps, n))
      go == startBuilds(node, slice(goEPsNeedsRebuild(eps, n), concurrencyRemaining))
      isTranspiling == \E k \in DOMAIN EPs(go) : EPs(go)[k].buildPromise
  IN IF isTranspiling THEN go
     ELSE reCheckSrcPaths(go, go.srcPathOrder)

updateLambdaCodeState(w) ==
  LET busy == updateLambdaCodeBusyStatus(w)
      eps == EPs(busy)
      n == Len(KeyOrder)
      concurrencyUsed == Len(goEPsBuilding(eps, n))
      concurrencyRemaining == BUILDER_CONCURRENCY - concurrencyUsed
      node == startBuilds(busy, nodeEPsNeedsRebuild(eps, n))
      go == startBuilds(node, slice(goEPsNeedsRebuild(eps, n), concurrencyRemaining))
      isTranspiling == \E k \in DOMAIN EPs(go) : EPs(go)[k].buildPromise
      hasError == \E k \in DOMAIN EPs(go) : EPs(go)[k].hasError
  IN IF isTranspiling THEN go
     ELSE IF hasError THEN go
     ELSE reCheckSrcPaths(go, go.srcPathOrder)

\* onFileChange that marks every entry point, whatever file changed
onFileChangeMarksAll(w, file) ==
  updateLambdaCodeState(
    [w EXCEPT !.state.entryPointsData =
       [k \in DOMAIN @ |-> [@[k] EXCEPT !.needsReBuild = LOW]]])

onFileChange(w, file) ==
  LET eps == EPs(w)
      index == w.state.watchedNodeFilesIndex
      isGo == endsWith(file, "go")
      entryPointKeys ==
        IF isGo THEN { k \in DOMAIN eps : isGoRuntime(eps[k].runtime) }
        ELSE IF file \in DOMAIN index THEN { index[file][i] : i \in 1..Len(index[file]) }
        ELSE {}
  IN IF ~isGo /\ file \notin DOMAIN index THEN w
     ELSE updateLambdaCodeState(
            [w EXCEPT !.state.entryPointsData =
               [k \in DOMAIN eps |->
                  IF k \in entryPointKeys THEN [eps[k] EXCEPT !.needsReBuild = LOW]
                  ELSE eps[k]]])

(***************************************************************************)
(* Build outcomes                                                          *)
(***************************************************************************)
\* watchedNodeFilesIndex[file] = watchedNodeFilesIndex[file] || []; push(key)
indexPush(index, files, key) ==
  [f \in DOMAIN index \cup files |->
     IF f \in files
     THEN Append(IF f \in DOMAIN index THEN index[f] ELSE << >>, key)
     ELSE index[f]]

\* the removal that forgets the files an entry point no longer reads
indexSpliceNothing(index, files, key) == index

\* indexOf + splice; the guard `index[file] === 0` never holds, so no key is deleted
indexSplice(index, files, key) ==
  [f \in DOMAIN index |-> IF f \in files THEN spliceFirst(index[f], key) ELSE index[f]]

onBuildSucceeded(w, key, tsconfig, inputFiles) ==
  LET ep == EPs(w)[key]
      w1 == setEP(w, key, [ep EXCEPT !.inputFiles = inputFiles, !.outEntryPoint = key])
      w2 == setSP(w1, ep.srcPath,
                  [srcPathDataTemplateObject EXCEPT
                     !.srcPath = ep.srcPath, !.tsconfig = tsconfig,
                     !.inputFiles = inputFiles])
  IN [w2 EXCEPT !.state.watchedNodeFilesIndex = indexPush(@, inputFiles, key)]

\* onReBuildSucceeded up to its await, without the mark for new input files
onReBuildSucceededUpdateNoMark(w, key, inputFiles) ==
  LET ep == EPs(w)[key]
      inputFilesDiff == arrayDiff(ep.inputFiles, inputFiles)
      w1 == setEP(w, key, [ep EXCEPT !.inputFiles = inputFiles,
                                     !.hasError = FALSE,
                                     !.buildPromise = FALSE])
      srcPathInputFiles ==
        arrayUnique({ EPs(w1)[k].inputFiles :
                        k \in { x \in DOMAIN EPs(w1) : EPs(w1)[x].srcPath = ep.srcPath } })
      w2 == setSP(w1, ep.srcPath,
                  [SPs(w1)[ep.srcPath] EXCEPT !.inputFiles = srcPathInputFiles,
                                              !.needsReCheck = TRUE])
  IN IF isNodeRuntime(ep.runtime)
     THEN [w2 EXCEPT
             !.state.watchedNodeFilesIndex =
               indexSplice(indexPush(@, inputFilesDiff.add, key),
                           inputFilesDiff.remove, key),
             !.watcher = (@ \cup inputFilesDiff.add) \ inputFilesDiff.remove]
     ELSE w1

\* onReBuildSucceeded up to the point where it may await watcher.unwatch
onReBuildSucceededUpdate(w, key, inputFiles) ==
  LET ep == EPs(w)[key]
      inputFilesDiff == arrayDiff(ep.inputFiles, inputFiles)
      hasNewInputFiles == inputFilesDiff.add # {}
      needsReBuild == IF ep.needsReBuild = OFF /\ hasNewInputFiles
                      THEN LOW ELSE ep.needsReBuild
      w1 == setEP(w, key, [ep EXCEPT !.inputFiles = inputFiles,
                                     !.hasError = FALSE,
                                     !.buildPromise = FALSE,
                                     !.needsReBuild = needsReBuild])
      srcPathInputFiles ==
        arrayUnique({ EPs(w1)[k].inputFiles :
                        k \in { x \in DOMAIN EPs(w1) : EPs(w1)[x].srcPath = ep.srcPath } })
      w2 == setSP(w1, ep.srcPath,
                  [SPs(w1)[ep.srcPath] EXCEPT !.inputFiles = srcPathInputFiles,
                                              !.needsReCheck = TRUE])
  IN IF isNodeRuntime(ep.runtime)
     THEN [w2 EXCEPT
             !.state.watchedNodeFilesIndex =
               indexSplice(indexPush(@, inputFilesDiff.add, key),
                           inputFilesDiff.remove, key),
             !.watcher = (@ \cup inputFilesDiff.add) \ inputFilesDiff.remove]
     ELSE w1

\* whether onReBuildSucceeded reaches `await this.watcher.unwatch(...)`
awaitsUnwatch(w, key, inputFiles) ==
  /\ isNodeRuntime(EPs(w)[key].runtime)
  /\ arrayDiff(EPs(w)[key].inputFiles, inputFiles).remove # {}

\* onReBuildSucceeded that reconciles and forgets to fulfil the pending requests
onReBuildSucceededFinishNoWake(w, key) == updateLambdaCodeState(w)

\* the rest of onReBuildSucceeded: reconcile, then fulfil the pending requests
onReBuildSucceededFinish(w, key) ==
  LET w1 == updateLambdaCodeState(w)
  IN IF EPs(w1)[key].needsReBuild = OFF
     THEN resolveAll(w1, key, EPs(w1)[key].pendingRequestCallbacks)
     ELSE w1

\* onReBuildFailed without the test of line 708: the waiters are always rejected
onReBuildFailedRejectsAlways(w, key) ==
  LET w1 == updateLambdaCodeState(
              setEP(w, key, [EPs(w)[key] EXCEPT !.hasError = TRUE,
                                                !.buildPromise = FALSE]))
  IN rejectAll(w1, key, EPs(w1)[key].pendingRequestCallbacks)

\* onReBuildFailed that also drops the mark a file change left during the build
onReBuildFailedForgetsEdit(w, key) ==
  LET w1 == updateLambdaCodeState(
              setEP(w, key, [EPs(w)[key] EXCEPT !.hasError = TRUE,
                                                !.buildPromise = FALSE,
                                                !.needsReBuild = OFF]))
  IN rejectAll(w1, key, EPs(w1)[key].pendingRequestCallbacks)

onReBuildFailed(w, key) ==
  LET w1 == updateLambdaCodeState(
              setEP(w, key, [EPs(w)[key] EXCEPT !.hasError = TRUE,
                                                !.buildPromise = FALSE]))
  IN IF EPs(w1)[key].needsReBuild = OFF
     THEN rejectAll(w1, key, EPs(w1)[key].pendingRequestCallbacks)
     ELSE w1

\* onLintDone that erases the handle and runs no reconciliation pass
onLintDoneNoPass(w, srcPath) ==
  setSP(w, srcPath, [SPs(w)[srcPath] EXCEPT !.lintProcess = NoProcess])

onLintDone(w, srcPath) ==
  updateLambdaCodeState(
    setSP(w, srcPath, [SPs(w)[srcPath] EXCEPT !.lintProcess = NoProcess]))

onTypeCheckDone(w, srcPath) ==
  updateLambdaCodeState(
    setSP(w, srcPath, [SPs(w)[srcPath] EXCEPT !.typeCheckProcess = NoProcess]))

\* start(): run the initial lint and type check of every source path
RECURSIVE startCheckers(_, _)
startCheckers(w, srcPaths) ==
  IF srcPaths = << >> THEN w
  ELSE LET lint == runLint(w, Head(srcPaths))
           typeCheck == runTypeCheck(lint.w, Head(srcPaths))
       IN startCheckers(
            onLintAndTypeCheckStarted(typeCheck.w, Head(srcPaths), lint.cp, typeCheck.cp),
            Tail(srcPaths))

(***************************************************************************)
(* The state machine                                                       *)
(***************************************************************************)
Init ==
  /\ lambdaHandlers \in Configs
  /\ phase = "constructed"
  /\ startError = ""
  /\ settled = << >>
  /\ state = [ isProcessingLambdaChanges |-> FALSE,
               entryPointsData |-> << >>,
               srcPathsData |-> << >>,
               watchedNodeFilesIndex |-> << >> ]
  /\ watcher = {}
  /\ children = [c \in ProcessClasses |-> 0]
  /\ running = [k \in Keys |-> 0]
  /\ requests = << >>
  /\ returned = NoReturn
  /\ srcPathOrder = << >>
  /\ logFirst = ""
  /\ logTail = << >>
  /\ suspended = [k \in Keys |-> 0]
  /\ events = 0

Step(w) == Commit(w)

\* buildPython has no await: in start()'s map it runs to onBuildSucceeded at once
RECURSIVE buildPythons(_, _)
buildPythons(w, n) ==
  IF n = 0 THEN w
  ELSE LET w1 == buildPythons(w, n - 1)
       IN IF isPythonRuntime(lambdaHandlers[n].runtime)
          THEN onBuildSucceeded(w1, KeyOrder[n], FALSE, {})
          ELSE w1

\* start(isTest) up to its first suspension: initializeState, and the builds begin
Start(isTest) ==
  /\ phase = "constructed"
  /\ phase' = IF isTest THEN "startingTest" ELSE "starting"
  /\ Step(buildPythons(initializeState(World), Len(lambdaHandlers)))
  /\ settled' = [k \in { x \in Keys : \E i \in 1..Len(lambdaHandlers) :
                                    /\ KeyOrder[i] = x
                                    /\ isPythonRuntime(lambdaHandlers[i].runtime) }
                  |-> "fulfilled"]
  /\ UNCHANGED << lambdaHandlers, startError, suspended, events >>

\* one of the initial builds (transpile, compile) succeeds
InitialBuildSucceeded(key, inputFiles) ==
  /\ phase \in {"starting", "startingTest"}
  /\ key \notin DOMAIN settled
  /\ LET ep == state.entryPointsData[key]
     IN /\ inputFiles \in (IF isNodeRuntime(ep.runtime)
                          THEN metafileInputs(ep.srcPath, ep.handler) ELSE {{}})
        /\ Step(onBuildSucceeded(World, key,
                  isNodeRuntime(ep.runtime) /\ tsconfigExists(ep.srcPath), inputFiles))
  /\ settled' = [k \in DOMAIN settled \cup {key} |->
                   IF k = key THEN "fulfilled" ELSE settled[k]]
  /\ UNCHANGED << lambdaHandlers, phase, startError, suspended, events >>

\* one of the initial builds is rejected
InitialBuildFailed(key) ==
  /\ phase \in {"starting", "startingTest"}
  /\ key \notin DOMAIN settled
  /\ settled' = [k \in DOMAIN settled \cup {key} |->
                   IF k = key THEN "rejected" ELSE settled[k]]
  /\ UNCHANGED << lambdaHandlers, phase, startError, state, watcher, children, running, requests,
                  returned, srcPathOrder, logFirst, logTail, suspended, events >>

MSG_BUILD_FAILED == "Failed to build the Lambda handlers"
MSG_NO_HANDLERS == "No Lambda handlers are found in the app"

\* start() that validates the source paths before it looks at isTest
StartSettledValidatesFirst ==
  /\ phase \in {"starting", "startingTest"}
  /\ DOMAIN settled = Keys
  /\ IF \E k \in Keys : settled[k] = "rejected"
     THEN /\ phase' = "failed"
          /\ startError' = MSG_BUILD_FAILED
          /\ UNCHANGED << state, watcher, children, running, requests, returned, srcPathOrder,
                          logFirst, logTail >>
     ELSE IF Len(getAllSrcPaths(World)) = 0
     THEN /\ phase' = "failed"
          /\ startError' = MSG_NO_HANDLERS
          /\ UNCHANGED << state, watcher, children, running, requests, returned, srcPathOrder,
                          logFirst, logTail >>
     ELSE IF phase = "startingTest"
     THEN /\ phase' = "test"
          /\ UNCHANGED << startError, state, watcher, children, running, requests, returned,
                          srcPathOrder, logFirst, logTail >>
     ELSE /\ phase' = "watching"
          /\ LET w == startCheckers(World, getAllSrcPaths(World))
             IN Step([w EXCEPT !.watcher = getWatchedFiles(w)])
          /\ UNCHANGED startError
  /\ UNCHANGED << lambdaHandlers, settled, suspended, events >>

\* start() after Promise.allSettled
StartSettled ==
  /\ phase \in {"starting", "startingTest"}
  /\ DOMAIN settled = Keys
  /\ IF \E k \in Keys : settled[k] = "rejected"
     THEN /\ phase' = "failed"
          /\ startError' = MSG_BUILD_FAILED
          /\ UNCHANGED << state, watcher, children, running, requests, returned, srcPathOrder,
                          logFirst, logTail >>
     ELSE IF phase = "startingTest"
     THEN /\ phase' = "test"
          /\ UNCHANGED << startError, state, watcher, children, running, requests, returned,
                          srcPathOrder, logFirst, logTail >>
     ELSE IF Len(getAllSrcPaths(World)) = 0
     THEN /\ phase' = "failed"
          /\ startError' = MSG_NO_HANDLERS
          /\ UNCHANGED << state, watcher, children, running, requests, returned, srcPathOrder,
                          logFirst, logTail >>
     ELSE /\ phase' = "watching"
          /\ LET w == startCheckers(World, getAllSrcPaths(World))
             IN Step([w EXCEPT !.watcher = getWatchedFiles(w)])
          /\ UNCHANGED startError
  /\ UNCHANGED << lambdaHandlers, settled, suspended, events >>

\* the watcher reports a change of a watched file
FileChanged(file) ==
  /\ phase = "watching"
  /\ file \in watcher \/ (GoGlob \in watcher /\ endsWith(file, "go"))
  /\ events < MaxEvents
  /\ events' = events + 1
  /\ Step(onFileChange(World, file))
  /\ UNCHANGED << lambdaHandlers, phase, startError, settled, suspended >>

\* the host asks for a built handler
GetTranspiledHandler(key) ==
  /\ phase \in {"watching", "test"}
  /\ events < MaxEvents
  /\ events' = events + 1
  /\ Step(getTranspiledHandler(World, key))
  /\ UNCHANGED << lambdaHandlers, phase, startError, settled, suspended >>

\* reTranspile: esbuilder.rebuild() and the metafile read succeed
ReTranspileSucceeded(key, inputFiles) ==
  /\ phase = "watching"
  /\ isNodeRuntime(state.entryPointsData[key].runtime)
  /\ running[key] > 0
  /\ inputFiles \in metafileInputs(state.entryPointsData[key].srcPath,
                                   state.entryPointsData[key].handler)
  /\ getInputFilesFromEsbuildMetafile(Metafile(inputFiles))
       = [threw |-> FALSE, inputFiles |-> inputFiles]
  /\ IF awaitsUnwatch(World, key, inputFiles)
     THEN /\ Step(onReBuildSucceededUpdate(built(World, key), key, inputFiles))
          /\ suspended' = [suspended EXCEPT ![key] = @ + 1]
     ELSE /\ Step(onReBuildSucceededFinish(
                    onReBuildSucceededUpdate(built(World, key), key, inputFiles), key))
          /\ UNCHANGED suspended
  /\ UNCHANGED << lambdaHandlers, phase, startError, settled, events >>

\* reTranspile: esbuilder.rebuild() throws
ReTranspileFailed(key) ==
  /\ phase = "watching"
  /\ isNodeRuntime(state.entryPointsData[key].runtime)
  /\ running[key] > 0
  /\ Step(onReBuildFailed(built(World, key), key))
  /\ UNCHANGED << lambdaHandlers, phase, startError, settled, suspended, events >>

\* reTranspile: esbuilder.rebuild() succeeds and the metafile cannot be read
ReTranspileMetafileUnreadable(key) ==
  /\ phase = "watching"
  /\ isNodeRuntime(state.entryPointsData[key].runtime)
  /\ running[key] > 0
  /\ LET read == getInputFilesFromEsbuildMetafile(UnreadableMetafile)
     IN IF read.threw
        THEN /\ Step(onReBuildFailed(built(World, key), key))
             /\ UNCHANGED suspended
        ELSE IF awaitsUnwatch(World, key, read.inputFiles)
        THEN /\ Step(onReBuildSucceededUpdate(built(World, key), key, read.inputFiles))
             /\ suspended' = [suspended EXCEPT ![key] = @ + 1]
        ELSE /\ Step(onReBuildSucceededFinish(
                       onReBuildSucceededUpdate(built(World, key), key, read.inputFiles), key))
             /\ UNCHANGED suspended
  /\ UNCHANGED << lambdaHandlers, phase, startError, settled, events >>

\* onReBuildSucceeded resumes after `await this.watcher.unwatch(...)`
UnwatchDone(key) ==
  /\ suspended[key] > 0
  /\ suspended' = [suspended EXCEPT ![key] = @ - 1]
  /\ Step(onReBuildSucceededFinish(World, key))
  /\ UNCHANGED << lambdaHandlers, phase, startError, settled, events >>

\* reCompile: go build exits with code 0
ReCompileSucceeded(key) ==
  /\ phase = "watching"
  /\ isGoRuntime(state.entryPointsData[key].runtime)
  /\ running[key] > 0
  /\ Step(onReBuildSucceededFinish(onReBuildSucceededUpdate(built(World, key), key, {}), key))
  /\ UNCHANGED << lambdaHandlers, phase, startError, settled, suspended, events >>

\* reCompile: go build exits with another code
ReCompileFailed(key) ==
  /\ phase = "watching"
  /\ isGoRuntime(state.entryPointsData[key].runtime)
  /\ running[key] > 0
  /\ Step(onReBuildFailed(built(World, key), key))
  /\ UNCHANGED << lambdaHandlers, phase, startError, settled, suspended, events >>

\* the close event of a lint process
LintClosed(c) ==
  /\ c.kind = "lint"
  /\ children[c] > 0
  /\ Step(onLintDone(closed(World, c), c.srcPath))
  /\ UNCHANGED << lambdaHandlers, phase, startError, settled, suspended, events >>

\* the close event of a type-check process
TypeCheckClosed(c) ==
  /\ c.kind = "typeCheck"
  /\ children[c] > 0
  /\ Step(onTypeCheckDone(closed(World, c), c.srcPath))
  /\ UNCHANGED << lambdaHandlers, phase, startError, settled, suspended, events >>

Next ==
  \/ \E isTest \in BOOLEAN : Start(isTest)
  \/ \E key \in Keys, inputFiles \in AllInputSets \cup {{}} : InitialBuildSucceeded(key, inputFiles)
  \/ \E key \in Keys : InitialBuildFailed(key)
  \/ StartSettled
  \/ \E file \in Files : FileChanged(file)
  \/ \E key \in Keys : GetTranspiledHandler(key)
  \/ \E key \in Keys, inputFiles \in AllInputSets : ReTranspileSucceeded(key, inputFiles)
  \/ \E key \in Keys : ReTranspileFailed(key)
  \/ \E key \in Keys : ReTranspileMetafileUnreadable(key)
  \/ \E key \in Keys : UnwatchDone(key)
  \/ \E key \in Keys : ReCompileSucceeded(key)
  \/ \E key \in Keys : ReCompileFailed(key)
  \/ \E c \in ProcessClasses : LintClosed(c)
  \/ \E c \in ProcessClasses : TypeCheckClosed(c)

Spec == Init /\ [][Next]_vars

(***************************************************************************)
(* Vocabulary of the properties                                            *)
(***************************************************************************)
Watching == phase = "watching"
buildInFlight(key) == state.entryPointsData[key].buildPromise
rebuildPriority(key) == state.entryPointsData[key].needsReBuild
pendingRequests(key) == state.entryPointsData[key].pendingRequestCallbacks
runtimeOf(key) == state.entryPointsData[key].runtime
isClean(key) == ~buildInFlight(key) /\ rebuildPriority(key) = OFF
GoKeys == { k \in Keys : \E i \in 1..Len(lambdaHandlers) :
                           KeyOrder[i] = k /\ isGoRuntime(lambdaHandlers[i].runtime) }
NodeKeys == { k \in Keys : \E i \in 1..Len(lambdaHandlers) :
                             KeyOrder[i] = k /\ isNodeRuntime(lambdaHandlers[i].runtime) }
\* the suspended calls still waiting on entry point key
Waiting(key) ==
  { i \in 1..Len(requests) : requests[i].key = key /\ requests[i].status = "waiting" }
\* a rebuild of key fails in this step
ReBuildFails(key) ==
  ReTranspileFailed(key) \/ ReTranspileMetafileUnreadable(key) \/ ReCompileFailed(key)
\* a rebuild of key succeeds in this step
ReBuildSucceeds(key) ==
  \/ ReCompileSucceeded(key)
  \/ \E inputFiles \in AllInputSets : ReTranspileSucceeded(key, inputFiles)

(***************************************************************************)
(* C1: a waiter of entry point e is resolved only in a state where e has   *)
(* no build in flight and rebuildPriority(e) = OFF.  The code tests        *)
(* needsReBuild after the reconciliation pass, which has already started   *)
(* the follow-up build and reset the priority: this statement is violated. *)
(***************************************************************************)
C1_WokenOnlyWhenClean ==
  [][ Watching =>
        \A i \in 1..Len(requests) :
          (requests[i].status = "waiting" /\ requests'[i].status = "resolved")
            => (/\ ~state'.entryPointsData[requests[i].key].buildPromise
                /\ state'.entryPointsData[requests[i].key].needsReBuild = OFF) ]_vars

C3_PendingOnlyWhenBusy ==
  \A key \in DOMAIN state.entryPointsData :
    pendingRequests(key) # << >> => (buildInFlight(key) \/ rebuildPriority(key) # OFF)

(***************************************************************************)
(* C4: priority monotone.  Once rebuildPriority(e) is HIGH, no step lowers *)
(* it to LOW (it leaves HIGH only when a build of e is started).  The      *)
(* file-change handler writes LOW unconditionally: violated.               *)
(***************************************************************************)
C4_PriorityMonotone ==
  [][ Watching =>
        \A key \in Keys :
          rebuildPriority(key) = HIGH =>
            state'.entryPointsData[key].needsReBuild # LOW ]_vars

(***************************************************************************)
(* C5: getTranspiledHandler on an entry point with no build in flight and  *)
(* rebuildPriority = OFF returns the current runtime and outEntryPoint at  *)
(* once: no waiter is registered, no priority changes, no build starts.    *)
(***************************************************************************)
C5_CleanCallReturnsAtOnce ==
  [][ \A key \in Keys :
        (phase \in {"watching", "test"} /\ isClean(key) /\ GetTranspiledHandler(key))
          => /\ state' = state
             /\ requests' = requests
             /\ children' = children
             /\ returned' = [key |-> key, runtime |-> runtimeOf(key),
                             handler |-> state.entryPointsData[key].outEntryPoint] ]_vars

\* a call on a clean node entry point has returned its artifact
C5_Witness ==
  /\ Watching
  /\ returned.key \in NodeKeys
  /\ returned.handler = returned.key
  /\ isClean(returned.key)

(***************************************************************************)
(* The fairness the liveness properties assume: every dispatched build     *)
(* completes, and an awaited watcher.unwatch resumes its caller.  This is  *)
(* WF_vars(BuildCompletes(key)) /\ WF_vars(UnwatchDone(key)) with ENABLED   *)
(* written out: a completion is enabled exactly while the build is in      *)
(* flight (the handlers are total and every completion changes the state), *)
(* a resumption exactly while a caller is suspended.                       *)
(***************************************************************************)
BuildCompletes(key) == ReBuildSucceeds(key) \/ ReBuildFails(key)
BuildRunning(key) == Watching /\ key \in Keys /\ running[key] > 0
\* a caller of onReBuildSucceeded is suspended on watcher.unwatch
Unwatching(key) == key \in Keys /\ suspended[key] > 0
\* the keys of the configured handlers, whichever configuration was chosen
AllKeys == UNION { { HandlerKey(h[i]) : i \in 1..Len(h) } : h \in Configs }

Fairness ==
  \A key \in AllKeys :
    /\ []<>(~BuildRunning(key)) \/ []<><<BuildCompletes(key)>>_vars
    /\ []<>(~Unwatching(key)) \/ []<><<UnwatchDone(key)>>_vars

FairSpec == Spec /\ Fairness

(***************************************************************************)
(* C6: every getTranspiledHandler call that suspends is eventually         *)
(* resolved or rejected, if every dispatched build eventually completes    *)
(* (file changes and requests stop once MaxEvents of them have happened).  *)
(***************************************************************************)
requestStatus(i) == IF i <= Len(requests) THEN requests[i].status ELSE "none"

C6_SuspendedCallSettles ==
  \A i \in 1..MaxEvents :
    (requestStatus(i) = "waiting") ~> (requestStatus(i) \in {"resolved", "rejected"})

\* a call that suspended on a go entry point waiting for a build slot, then settled
C6_Witness ==
  /\ Watching
  /\ \E i \in 1..Len(requests) :
       /\ requests[i].key \in GoKeys
       /\ requests[i].status = "resolved"
       /\ state.entryPointsData[requests[i].key].hasError = FALSE
       /\ \E j \in 1..Len(requests) : requests[j].status = "rejected"

(***************************************************************************)
(* C7: after start, at most BUILDER_CONCURRENCY go entry points have a     *)
(* rebuild in flight; a reconciliation pass leaves the dirty go entry      *)
(* points it does not dispatch with their priority unchanged (a step that  *)
(* is no file change and no request changes a go priority only by          *)
(* starting the build).                                                    *)
(***************************************************************************)
GoBuilding == { k \in GoKeys : buildInFlight(k) }

C7_GoConcurrencyCap ==
  /\ [](Watching => Cardinality(GoBuilding) <= BUILDER_CONCURRENCY)
  /\ [][ (Watching /\ events' = events) =>
           \A key \in GoKeys :
             \/ state'.entryPointsData[key].needsReBuild = rebuildPriority(key)
             \/ /\ state'.entryPointsData[key].buildPromise
                /\ state'.entryPointsData[key].needsReBuild = OFF ]_vars

\* the cap is reached and a dirty go entry point is queued behind it
C7_Witness ==
  /\ Watching
  /\ Cardinality(GoBuilding) = BUILDER_CONCURRENCY
  /\ \E key \in GoKeys : ~buildInFlight(key) /\ rebuildPriority(key) = HIGH
  /\ \E key \in GoKeys : buildInFlight(key) /\ rebuildPriority(key) = LOW

(***************************************************************************)
(* C8: no step dispatches a go entry point that was dirty at LOW while it  *)
(* leaves a HIGH go entry point queued without a build; and a go build in  *)
(* flight ends only by its own completion.                                 *)
(***************************************************************************)
\* a build of key is started in this step
Dispatched(key) ==
  /\ state'.entryPointsData[key].buildPromise
  /\ ~buildInFlight(key) \/ ReBuildSucceeds(key) \/ ReBuildFails(key)

C8_HighBeforeLow ==
  [][ Watching =>
        /\ \A low \in GoKeys :
             (Dispatched(low) /\ rebuildPriority(low) = LOW) =>
               ~ \E high \in GoKeys :
                   /\ ~state'.entryPointsData[high].buildPromise
                   /\ state'.entryPointsData[high].needsReBuild = HIGH
        /\ \A key \in GoKeys :
             (buildInFlight(key) /\ ~state'.entryPointsData[key].buildPromise)
               => (ReBuildSucceeds(key) \/ ReBuildFails(key)) ]_vars

\* a go entry point registered later got the slot because it was HIGH,
\* and the earlier one is still queued at LOW
C8_Witness ==
  /\ Watching
  /\ \E i, j \in 1..Len(KeyOrder) :
       /\ i < j
       /\ KeyOrder[i] \in GoKeys /\ KeyOrder[j] \in GoKeys
       /\ ~buildInFlight(KeyOrder[i]) /\ rebuildPriority(KeyOrder[i]) = LOW
       /\ buildInFlight(KeyOrder[j]) /\ Waiting(KeyOrder[j]) # {}

(***************************************************************************)
(* C9: the busy messages strictly alternate.  The first one is             *)
(* "Rebuilding code...", of two consecutive ones exactly one is            *)
(* "Rebuilding code...", and the last one is "Rebuilding code..." exactly  *)
(* when isProcessingLambdaChanges is set (a message comes with a flip).    *)
(***************************************************************************)
C9_BusyMessagesAlternate ==
  /\ logFirst \in {"", MSG_REBUILDING}
  /\ (logFirst = "") = (logTail = << >>)
  /\ Len(logTail) = 2 => ((logTail[1] = MSG_REBUILDING) # (logTail[2] = MSG_REBUILDING))
  /\ state.isProcessingLambdaChanges
       = (logTail # << >> /\ logTail[Len(logTail)] = MSG_REBUILDING)

\* a second "Rebuilding code..." after a failed round
C9_Witness ==
  logTail = << MSG_FAILED, MSG_REBUILDING >>

(***************************************************************************)
(* C10, as claimed: isProcessingLambdaChanges is set if and only if some   *)
(* entry point is building or dirty, or some source path needs a recheck   *)
(* or has a checker process.                                                 *)
(***************************************************************************)
SomeEntryPointBusy == \E key \in Keys : buildInFlight(key) \/ rebuildPriority(key) # OFF
SomeSrcPathChecking ==
  \E p \in DOMAIN state.srcPathsData :
    \/ state.srcPathsData[p].needsReCheck
    \/ state.srcPathsData[p].lintProcess # NoProcess
    \/ state.srcPathsData[p].typeCheckProcess # NoProcess

\* no handler is suspended in the middle of its update: the last step ended with a pass
AfterPass == Watching /\ \A key \in Keys : suspended[key] = 0

C10_BusyIffWork ==
  AfterPass =>
    (state.isProcessingLambdaChanges = (SomeEntryPointBusy \/ SomeSrcPathChecking))

(***************************************************************************)
(* C10, amended: if isProcessingLambdaChanges is set then some entry point *)
(* is building or dirty, or some source path needs a recheck or has a      *)
(* checker process; if it is not set then no entry point is building or    *)
(* dirty (checkers may still run: those started by start, and a recheck    *)
(* left pending by a failed build).                                        *)
(***************************************************************************)
C10_BusyBounds ==
  Watching =>
    /\ state.isProcessingLambdaChanges => (SomeEntryPointBusy \/ SomeSrcPathChecking)
    /\ ~state.isProcessingLambdaChanges => ~SomeEntryPointBusy

\* not busy after a failed build, with a recheck still pending
C10_Witness ==
  /\ Watching
  /\ ~state.isProcessingLambdaChanges
  /\ logTail # << >> /\ logTail[Len(logTail)] = MSG_FAILED
  /\ \E p \in DOMAIN state.srcPathsData : state.srcPathsData[p].needsReCheck

(***************************************************************************)
(* C11: for every source path, at most one lint process and at most one    *)
(* type-check process started for it is live: started, not killed and not  *)
(* yet closed.  (A killed process whose close event is still to come is    *)
(* not counted.)                                                           *)
(***************************************************************************)
liveProcesses(kind, srcPath) ==
  children[[kind |-> kind, srcPath |-> srcPath, killed |-> FALSE]]

C11_AtMostOneLiveChecker ==
  \A srcPath \in SrcPaths, kind \in {"lint", "typeCheck"} :
    liveProcesses(kind, srcPath) <= 1

(***************************************************************************)
(* C12, as claimed: a source path has a live lint or type-check process    *)
(* only if every entry point of that source path has hasError = false, no  *)
(* build in flight and rebuildPriority = OFF.                              *)
(***************************************************************************)
entryPointsOf(srcPath) ==
  { key \in DOMAIN state.entryPointsData : state.entryPointsData[key].srcPath = srcPath }

hasLiveChecker(srcPath) ==
  liveProcesses("lint", srcPath) > 0 \/ liveProcesses("typeCheck", srcPath) > 0

C12_CheckerOnlyWhenClean ==
  \A srcPath \in SrcPaths :
    hasLiveChecker(srcPath) =>
      \A key \in entryPointsOf(srcPath) :
        ~state.entryPointsData[key].hasError /\ isClean(key)

(***************************************************************************)
(* C12, amended: a lint or type-check process is started for a source path *)
(* only by a step after which every entry point of that source path has    *)
(* hasError = false, no build in flight and rebuildPriority = OFF.  Once    *)
(* started it stays live through later file changes and builds, until it   *)
(* closes or the next recheck of the source path kills it.                 *)
(***************************************************************************)
\* the processes of a kind started for a source path that have not closed
openProcesses(ch, kind, srcPath) ==
  ch[[kind |-> kind, srcPath |-> srcPath, killed |-> FALSE]]
    + ch[[kind |-> kind, srcPath |-> srcPath, killed |-> TRUE]]

\* this step is the close event of a process of this kind and source path
CloseEvent(kind, srcPath) ==
  \E c \in ProcessClasses :
    /\ c.kind = kind /\ c.srcPath = srcPath
    /\ LintClosed(c) \/ TypeCheckClosed(c)

\* this step starts a process of this kind for this source path
CheckerStarted(kind, srcPath) ==
  \/ openProcesses(children', kind, srcPath) > openProcesses(children, kind, srcPath)
  \/ /\ CloseEvent(kind, srcPath)
     /\ openProcesses(children', kind, srcPath) = openProcesses(children, kind, srcPath)

C12_CheckerStartedOnlyWhenClean ==
  [][ \A srcPath \in SrcPaths, kind \in {"lint", "typeCheck"} :
        CheckerStarted(kind, srcPath) =>
          \A key \in DOMAIN state'.entryPointsData :
            state'.entryPointsData[key].srcPath = srcPath =>
              /\ ~state'.entryPointsData[key].hasError
              /\ ~state'.entryPointsData[key].buildPromise
              /\ state'.entryPointsData[key].needsReBuild = OFF ]_vars

\* a checker restarted by a pass after a rebuild is live, and the entry point of
\* its source path has since been changed and is building again
C12_Witness ==
  /\ Watching
  /\ \E srcPath \in SrcPaths :
       /\ openProcesses(children, "lint", srcPath) > liveProcesses("lint", srcPath)
       /\ liveProcesses("lint", srcPath) > 0
       /\ \E key \in entryPointsOf(srcPath) : buildInFlight(key)

(***************************************************************************)
(* C13: for every file f and node-like entry point e, f is in              *)
(* inputFiles(e) if and only if e's key occurs in watchedNodeFilesIndex[f],*)
(* and then it occurs exactly once; during and after the initial builds    *)
(* and after rebuilds whose input sets grow or shrink.                     *)
(***************************************************************************)
\* how many times key occurs in the index entry of file (0 if the file has none)
occurrences(file, key) ==
  LET index == state.watchedNodeFilesIndex
  IN IF file \in DOMAIN index
     THEN Cardinality({ i \in 1..Len(index[file]) : index[file][i] = key })
     ELSE 0

C13_IndexMatchesInputFiles ==
  \A key \in DOMAIN state.entryPointsData :
    isNodeRuntime(runtimeOf(key)) =>
      \A file \in Files :
        occurrences(file, key) =
          (IF file \in state.entryPointsData[key].inputFiles THEN 1 ELSE 0)

\* an input set that shrank, then a rebuild that failed: the dropped file keeps an
\* empty index entry and the entry point keeps the files of its last good build
C13_Witness ==
  /\ Watching
  /\ \E key \in NodeKeys, file \in Files :
       /\ file \in DOMAIN state.watchedNodeFilesIndex
       /\ file \notin state.entryPointsData[key].inputFiles
       /\ \E other \in Files : other \in state.entryPointsData[key].inputFiles
       /\ state.entryPointsData[key].hasError

(***************************************************************************)
(* C14, as claimed: once start has finished, it has failed with "Failed to *)
(* build the Lambda handlers" if an initial build failed, and with "No     *)
(* Lambda handlers are found in the app" if no handlers are configured,    *)
(* whatever isTest is; and in a test no watcher is installed.              *)
(***************************************************************************)
StartFinished == phase \in {"failed", "test", "watching"}
someBuildRejected == \E k \in DOMAIN settled : settled[k] = "rejected"

C14_StartErrors ==
  StartFinished =>
    /\ someBuildRejected => (phase = "failed" /\ startError = MSG_BUILD_FAILED)
    /\ lambdaHandlers = << >> => (phase = "failed" /\ startError = MSG_NO_HANDLERS)
    /\ phase = "test" => watcher = {}

(***************************************************************************)
(* C14, amended: start fails with "Failed to build the Lambda handlers"    *)
(* whenever an initial build failed, for both values of isTest.  When no   *)
(* build failed and isTest is true, start returns without an error, with   *)
(* no watcher and no checker process, even if no handlers are configured.  *)
(* When no build failed and isTest is false, start fails with "No Lambda   *)
(* handlers are found in the app" if there is no source path, and          *)
(* otherwise installs the watcher.                                         *)
(***************************************************************************)
C14_StartOutcome ==
  [][ (phase \in {"starting", "startingTest"} /\ phase' \notin {"starting", "startingTest"})
        => IF someBuildRejected
           THEN phase' = "failed" /\ startError' = MSG_BUILD_FAILED /\ watcher' = {}
           ELSE IF phase = "startingTest"
           THEN /\ phase' = "test" /\ startError' = ""
                /\ watcher' = {} /\ \A c \in ProcessClasses : children'[c] = 0
           ELSE IF lambdaHandlers = << >>
           THEN phase' = "failed" /\ startError' = MSG_NO_HANDLERS /\ watcher' = {}
           ELSE phase' = "watching" /\ startError' = "" /\ watcher' # {} ]_vars

\* a test start of an app without handlers has returned normally
C14_Witness ==
  phase = "test" /\ lambdaHandlers = << >> /\ startError = "" /\ watcher = {}

(***************************************************************************)
(* C15: the reconciliation pass is idempotent.  Run on any state the       *)
(* watcher can be in, a second pass right after the first dispatches no    *)
(* build, starts and kills no process, logs no busy message and changes    *)
(* nothing of the state.                                                   *)
(***************************************************************************)
\* this step is a handler that ends with a reconciliation pass
PassEnded ==
  \/ StartSettled /\ phase' = "watching"
  \/ \E file \in Files :
       /\ FileChanged(file)
       /\ endsWith(file, "go") \/ file \in DOMAIN state.watchedNodeFilesIndex
  \/ \E key \in Keys :
       \/ BuildCompletes(key) /\ suspended' = suspended
       \/ UnwatchDone(key)
  \/ \E c \in ProcessClasses : LintClosed(c) \/ TypeCheckClosed(c)

\* a second pass after a first changes nothing, whatever state the first ran on;
\* and a state in which no handler is suspended before its pass is one a pass
\* has left behind (a request in between adds nothing a pass acts on): a pass
\* on it, and its busy-status edge detection, change nothing
C15_ReconcileIdempotent ==
  /\ Watching =>
       LET once == updateLambdaCodeState(World)
       IN updateLambdaCodeState(once) = once
  /\ AfterPass =>
       /\ updateLambdaCodeState(World) = World
       /\ updateLambdaCodeBusyStatus(World) = World

\* a state on which the first pass has work to do: a handler is suspended before
\* its pass with a recheck pending, and the pass restarts the checkers
C15_Witness ==
  /\ Watching
  /\ \E srcPath \in DOMAIN state.srcPathsData : state.srcPathsData[srcPath].needsReCheck
  /\ LET once == updateLambdaCodeState(World)
     IN /\ once.children # children
        /\ once.state # state

(***************************************************************************)
(* C16: go-like entry points of equal priority are dispatched in registry  *)
(* order.  If a pass dispatches a go-like entry point, every go-like entry *)
(* point registered before it that was dirty at the same priority and not  *)
(* building when the pass ran is dispatched too.                           *)
(***************************************************************************)
\* the priority and build state of a go entry point when the pass of this step runs
priorityAtPass(key) ==
  IF \E file \in Files : FileChanged(file) /\ endsWith(file, "go")
  THEN LOW ELSE rebuildPriority(key)
buildingAtPass(key) == buildInFlight(key) /\ ~BuildCompletes(key)

C16_EqualPriorityInRegistryOrder ==
  [][ Watching =>
        \A i, j \in 1..Len(KeyOrder) :
          LET earlier == KeyOrder[i]
              later == KeyOrder[j]
          IN ( /\ i < j
               /\ earlier \in GoKeys /\ later \in GoKeys
               /\ PassEnded
               /\ Dispatched(later)
               /\ ~buildingAtPass(earlier) /\ ~buildingAtPass(later)
               /\ priorityAtPass(earlier) # OFF
               /\ priorityAtPass(earlier) = priorityAtPass(later) )
             => Dispatched(earlier) ]_vars

(***************************************************************************)
(* C17: a lint or type-check process is started only by a step after which *)
(* no entry point of any source path has a build in flight or hasError;    *)
(* and a reconciliation pass run while some entry point has hasError       *)
(* starts and kills no process and leaves needsReCheck and the process     *)
(* handles of every source path unchanged.                                 *)
(***************************************************************************)
someEntryPointHasError ==
  \E key \in DOMAIN state.entryPointsData : state.entryPointsData[key].hasError

C17_NoCheckerWhileBuildingOrFailed ==
  /\ [][ (\E srcPath \in SrcPaths, kind \in {"lint", "typeCheck"} :
            CheckerStarted(kind, srcPath))
         => \A key \in DOMAIN state'.entryPointsData :
              /\ ~state'.entryPointsData[key].buildPromise
              /\ ~state'.entryPointsData[key].hasError ]_vars
  /\ []( (Watching /\ someEntryPointHasError) =>
           LET pass == updateLambdaCodeState(World)
           IN /\ pass.children = children
              /\ pass.state.srcPathsData = state.srcPathsData )

\* every build has ended, one of them in an error: the recheck that a successful
\* build asked for is still pending
C17_Witness ==
  /\ Watching
  /\ someEntryPointHasError
  /\ ~SomeEntryPointBusy
  /\ \E p \in DOMAIN state.srcPathsData :
       state.srcPathsData[p].needsReCheck /\ ~hasLiveChecker(p)

(***************************************************************************)
(* C18: file-change fan-out.  A change of a .go file marks every go-like   *)
(* entry point LOW and no other; a change of another file marks exactly    *)
(* the entry points its watchedNodeFilesIndex entry lists; a change that   *)
(* matches no entry point changes no entry point, request or process.      *)
(* (The pass that follows dispatches what it can: a marked entry point is  *)
(* LOW after the step, or its build was started by the step.)              *)
(***************************************************************************)
\* the entry points the claim says a change of file marks
affectedBy(file) ==
  IF endsWith(file, "go") THEN GoKeys
  ELSE IF file \in DOMAIN state.watchedNodeFilesIndex
       THEN { key \in Keys : occurrences(file, key) > 0 }
       ELSE {}

\* key is LOW after the step, or the step started its build
MarkedLow(key) ==
  \/ state'.entryPointsData[key].needsReBuild = LOW
  \/ /\ ~buildInFlight(key)
     /\ state'.entryPointsData[key].buildPromise
     /\ state'.entryPointsData[key].needsReBuild = OFF

\* key keeps its priority and build state, or it was dirty already and the
\* step started its build
NotMarked(key) ==
  \/ /\ state'.entryPointsData[key].needsReBuild = rebuildPriority(key)
     /\ state'.entryPointsData[key].buildPromise = buildInFlight(key)
  \/ /\ rebuildPriority(key) # OFF /\ ~buildInFlight(key)
     /\ state'.entryPointsData[key].buildPromise
     /\ state'.entryPointsData[key].needsReBuild = OFF

C18_FileChangeFanOut ==
  [][ \A file \in Files :
        FileChanged(file) =>
          /\ \A key \in affectedBy(file) : MarkedLow(key)
          /\ \A key \in Keys \ affectedBy(file) : NotMarked(key)
          /\ \A key \in Keys :
               state'.entryPointsData[key].pendingRequestCallbacks = pendingRequests(key)
          /\ affectedBy(file) = {} =>
               /\ state' = state
               /\ requests' = requests
               /\ children' = children ]_vars

\* after a change of a .go file: one go entry point got the slot, the other
\* is queued at LOW, and the node and python entry points are untouched
C18_Witness ==
  /\ Watching
  /\ \E key \in GoKeys : buildInFlight(key) /\ rebuildPriority(key) = OFF
  /\ \E key \in GoKeys : ~buildInFlight(key) /\ rebuildPriority(key) = LOW
  /\ \A key \in Keys \ GoKeys : isClean(key) /\ pendingRequests(key) = << >>
  /\ requests = << >>

(***************************************************************************)
(* C19: no edit is lost to a build in flight.  A build in flight ends only *)
(* by its own completion, never by a file change; and an entry point that  *)
(* is dirty becomes rebuildPriority = OFF only by a step that starts a     *)
(* build of it, so it is never clean again before a build started after    *)
(* the change.                                                             *)
(***************************************************************************)
C19_NoEditLost ==
  [][ Watching =>
        \A key \in Keys :
          /\ (buildInFlight(key) /\ ~state'.entryPointsData[key].buildPromise)
               => BuildCompletes(key)
          /\ (\E file \in Files : FileChanged(file))
               => (buildInFlight(key) => state'.entryPointsData[key].buildPromise)
          /\ (rebuildPriority(key) # OFF /\ state'.entryPointsData[key].needsReBuild = OFF)
               => Dispatched(key)
          /\ (buildInFlight(key) /\ rebuildPriority(key) # OFF /\ BuildCompletes(key))
               => \/ Dispatched(key)
                  \/ state'.entryPointsData[key].needsReBuild # OFF ]_vars

\* a file changed while the node entry point was building; the build has
\* succeeded and the follow-up build is in flight (the recheck waits for it)
C19_Witness ==
  /\ Watching
  /\ events = 2
  /\ \A key \in Keys : suspended[key] = 0 /\ ~state.entryPointsData[key].hasError
  /\ \A key \in GoKeys : isClean(key)
  /\ requests = << >> /\ returned = NoReturn
  /\ \E key \in NodeKeys :
       /\ buildInFlight(key) /\ rebuildPriority(key) = OFF
       /\ state.srcPathsData[state.entryPointsData[key].srcPath].needsReCheck

(***************************************************************************)
(* C20: a successful rebuild of an entry point whose priority is OFF and   *)
(* that reports input files it did not have before marks the entry point   *)
(* LOW and a follow-up build of it is dispatched (by the pass of the same  *)
(* handler, or after its await with the mark LOW kept meanwhile); a        *)
(* successful rebuild with no new input file and priority OFF leaves the   *)
(* priority OFF and dispatches no follow-up build.                         *)
(***************************************************************************)
\* the follow-up build of key is started, or key waits for it marked LOW
FollowUp(key) ==
  \/ /\ state'.entryPointsData[key].buildPromise
     /\ state'.entryPointsData[key].needsReBuild = OFF
  \/ /\ suspended'[key] > suspended[key]
     /\ ~state'.entryPointsData[key].buildPromise
     /\ state'.entryPointsData[key].needsReBuild = LOW

NoFollowUp(key) ==
  /\ ~state'.entryPointsData[key].buildPromise
  /\ state'.entryPointsData[key].needsReBuild = OFF

C20_NewInputFilesRebuildOnce ==
  [][ \A key \in Keys :
        (Watching /\ rebuildPriority(key) = OFF) =>
          /\ \A inputFiles \in AllInputSets :
               ReTranspileSucceeded(key, inputFiles) =>
                 IF inputFiles \ state.entryPointsData[key].inputFiles # {}
                 THEN FollowUp(key)
                 ELSE NoFollowUp(key)
          /\ ReCompileSucceeded(key) => NoFollowUp(key) ]_vars

\* one file change, and the rebuild found a new input file: the follow-up
\* build is in flight and the recheck waits for it
C20_Witness ==
  /\ Watching
  /\ events = 1
  /\ \E key \in NodeKeys :
       /\ buildInFlight(key) /\ rebuildPriority(key) = OFF
       /\ ~state.entryPointsData[key].hasError
       /\ state.entryPointsData[key].inputFiles = NodeFiles
       /\ state.srcPathsData[state.entryPointsData[key].srcPath].needsReCheck

(***************************************************************************)
(* C21: a reconciliation pass that ends with no build in flight and no     *)
(* entry point in error leaves no source path with needsReCheck set.  For  *)
(* every source path that needed a recheck when the pass ran, the pass     *)
(* kills the lint and the type-check process its handles recorded, starts  *)
(* each checker exactly once (the linter when the source path has files to *)
(* lint, the type checker when it has TypeScript files and a tsconfig) and *)
(* records the new handles; for the other source paths it kills and starts *)
(* nothing.                                                                *)
(***************************************************************************)
\* this step is the close event of a process of class [kind, srcPath, killed]
closedNow(kind, srcPath, killed) ==
  LET c == [kind |-> kind, srcPath |-> srcPath, killed |-> killed]
  IN IF LintClosed(c) \/ TypeCheckClosed(c) THEN 1 ELSE 0

\* how many processes of a kind this step starts for a source path
startedCount(kind, srcPath) ==
  openProcesses(children', kind, srcPath) - openProcesses(children, kind, srcPath)
    + closedNow(kind, srcPath, TRUE) + closedNow(kind, srcPath, FALSE)

\* how many processes of a kind this step kills for a source path
killedCount(kind, srcPath) ==
  children'[[kind |-> kind, srcPath |-> srcPath, killed |-> TRUE]]
    - children[[kind |-> kind, srcPath |-> srcPath, killed |-> TRUE]]
    + closedNow(kind, srcPath, TRUE)

processHandle(st, kind, srcPath) ==
  IF kind = "lint" THEN st.srcPathsData[srcPath].lintProcess
  ELSE st.srcPathsData[srcPath].typeCheckProcess

\* the handle the pass of this step finds: a close event has just erased it
handleAtPass(kind, srcPath) ==
  IF CloseEvent(kind, srcPath) THEN NoProcess ELSE processHandle(state, kind, srcPath)

\* needsReCheck as the pass of this step finds it: set before, or set by the
\* build-success handler that runs the pass
needsReCheckAtPass(srcPath) ==
  \/ state.srcPathsData[srcPath].needsReCheck
  \/ \E key \in entryPointsOf(srcPath), inputFiles \in AllInputSets :
       ReTranspileSucceeded(key, inputFiles) /\ suspended' = suspended

\* whether a checker of this kind has anything to run on after the step
checkable(kind, srcPath) ==
  LET sp == state'.srcPathsData[srcPath]
  IN IF kind = "lint" THEN isLintEnabled /\ lintInputFiles(sp.inputFiles) # {}
     ELSE /\ isTypeCheckEnabled
          /\ { f \in sp.inputFiles : endsWith(f, "ts") } # {}
          /\ sp.tsconfig

\* the step is a handler whose pass reaches the restart of the checkers
RecheckRuns ==
  /\ Watching
  /\ PassEnded
  /\ \A key \in Keys : /\ ~state'.entryPointsData[key].buildPromise
                       /\ ~state'.entryPointsData[key].hasError

C22_UnreadableMetafileIsSuccess ==
  [][ \A key \in Keys :
        ReTranspileMetafileUnreadable(key) =>
          /\ ~state'.entryPointsData[key].hasError
          /\ state'.entryPointsData[key].inputFiles = {}
          /\ \A i \in Waiting(key) : requests'[i].status # "rejected" ]_vars

(***************************************************************************)
(* C23: once start has completed, the inputFiles of every source path is   *)
(* the union of the inputFiles of the entry points registered under it,    *)
(* right after the initial builds included.  The initial build of each     *)
(* entry point overwrites the record of its source path with its own input *)
(* files: with two entry points in a source path, violated.                *)
(***************************************************************************)
C23_SrcPathInputFilesIsUnion ==
  phase \in {"watching", "test"} =>
    \A srcPath \in DOMAIN state.srcPathsData :
      state.srcPathsData[srcPath].inputFiles =
        UNION { state.entryPointsData[key].inputFiles : key \in entryPointsOf(srcPath) }

(***************************************************************************)
(* C24: at most one rebuild of an entry point is running at any time.  The *)
(* buildPromise flag of an entry point is set exactly while a dispatched   *)
(* rebuild of it has not completed, and no step dispatches a rebuild of an *)
(* entry point whose flag is set and whose rebuild does not complete in    *)
(* that step; also while a build-success handler is suspended on the       *)
(* watcher update and file changes and requests arrive.                    *)
(***************************************************************************)
C24_OneBuildPerEntryPoint ==
  /\ [](\A key \in DOMAIN state.entryPointsData :
          /\ running[key] <= 1
          /\ buildInFlight(key) = (running[key] = 1))
  /\ [][ \A key \in DOMAIN state.entryPointsData :
           (buildInFlight(key) /\ ~BuildCompletes(key)) => running'[key] = running[key] ]_vars

\* a build-success handler of an entry point is suspended on watcher.unwatch, a
\* file change has arrived meanwhile, and the next rebuild of the entry point runs
C24_Witness ==
  /\ Watching
  /\ \E key \in NodeKeys :
       /\ suspended[key] > 0
       /\ buildInFlight(key)
       /\ running[key] = 1

(***************************************************************************)
(* C25: the lint (type-check) handle of a source path is null only if no   *)
(* lint (type-check) process started for it is live, that is started, not  *)
(* killed and not yet closed.  The close event of a killed process erases  *)
(* the handle that by then refers to its replacement: violated.            *)
(***************************************************************************)
C25_NullHandleOnlyWhenNoneLive ==
  \A srcPath \in DOMAIN state.srcPathsData, kind \in {"lint", "typeCheck"} :
    processHandle(state, kind, srcPath) = NoProcess => liveProcesses(kind, srcPath) = 0

(***************************************************************************)
(* C26: the scheduler is work-conserving.  After every step that ends with *)
(* a reconciliation pass, and in every state in which no handler is        *)
(* suspended before its pass, no node-like entry point is dirty without a  *)
(* build in flight, and a go-like entry point is dirty without a build in  *)
(* flight only if exactly BUILDER_CONCURRENCY go-like builds are in flight.*)
(***************************************************************************)
workConserved(st) ==
  /\ \A key \in NodeKeys :
       st.entryPointsData[key].needsReBuild # OFF => st.entryPointsData[key].buildPromise
  /\ \A key \in GoKeys :
       (st.entryPointsData[key].needsReBuild # OFF /\ ~st.entryPointsData[key].buildPromise)
         => Cardinality({ k \in GoKeys : st.entryPointsData[k].buildPromise })
              = BUILDER_CONCURRENCY

C26_WorkConserving ==
  /\ [][ PassEnded => workConserved(state') ]_vars
  /\ [](AfterPass => workConserved(state))

\* after a change of a .go file and of a node file: the node entry point and one
\* go entry point are building, the other go entry point waits for the slot
C26_Witness ==
  /\ AfterPass
  /\ Cardinality(GoBuilding) = BUILDER_CONCURRENCY
  /\ \E key \in GoKeys : ~buildInFlight(key) /\ rebuildPriority(key) # OFF
  /\ \E key \in NodeKeys : buildInFlight(key)

(***************************************************************************)
(* The fairness of the checker processes: while a lint or type-check       *)
(* process is open, the close event of one of them eventually arrives      *)
(* (WF_vars of the close events taken together, with ENABLED written out). *)
(* It follows from every started process eventually completing.            *)
(***************************************************************************)
SomeCheckerOpen == \E c \in ProcessClasses : children[c] > 0
SomeCheckerCloses == \E c \in ProcessClasses : LintClosed(c) \/ TypeCheckClosed(c)

CheckerFairness == []<>(~SomeCheckerOpen) \/ []<><<SomeCheckerCloses>>_vars

QuiescenceSpec == Spec /\ Fairness /\ CheckerFairness

(***************************************************************************)
(* C27: quiescence.  File changes and requests stop (after MaxEvents of    *)
(* them); if every dispatched build completes, every awaited unwatch       *)
(* resumes and every checker process closes, the system reaches and keeps  *)
(* a state in which no entry point has a build in flight or a priority     *)
(* other than OFF, isProcessingLambdaChanges is false and the last busy    *)
(* message, if any, is a terminal one.                                     *)
(***************************************************************************)
Quiescent ==
  /\ \A key \in DOMAIN state.entryPointsData : isClean(key)
  /\ ~state.isProcessingLambdaChanges
  /\ logTail # << >> => logTail[Len(logTail)] \in {MSG_DONE, MSG_FAILED}

C27_Quiescence == <>[]Quiescent

\* all the events have happened, every build and every checker has ended, and
\* "Done building code" closed the last round
C27_Witness ==
  /\ Watching
  /\ events = MaxEvents
  /\ Quiescent
  /\ ~SomeCheckerOpen
  /\ \A key \in Keys : suspended[key] = 0
  /\ logTail # << >> /\ logTail[Len(logTail)] = MSG_DONE

====
